---------------------------- MODULE Spec2Model ----------------------------
(***************************************************************************)
(* A model of the SummifyX summarization pipeline (generalUtils.py) and of *)
(* the file handling around it (app.py).                                   *)
(*                                                                         *)
(* Text.  A Python string is modelled as a Text: the sequence of its       *)
(* whitespace-separated words together with the widths of the whitespace   *)
(* runs around them, gaps[1] before the first word and gaps[i+1] after     *)
(* word i.  A word is named by a string of the vocabulary below; its       *)
(* length, its lower-cased form and the keywords occurring in it are the   *)
(* tables WordLen, Lower and KeywordsIn.  The words "x^n" stand for n      *)
(* letters x without whitespace, which is how long texts are written.      *)
(* clean_text_for_audio works on single characters, so its texts are       *)
(* sequences of characters instead (see Ch, Letters and Str).              *)
(*                                                                         *)
(* Specifications.  Spec: one call of summarize_chain.  SpecClassify,      *)
(* SpecChunk, SpecTokens: detect_content_type, chunk_documents and         *)
(* estimate_tokens called on their own.  SpecSanitize: clean_text_for_audio*)
(* and the start of generate_audio.  SpecFiles: the temporary files of the *)
(* PDF mode and of generate_audio.  SpecSession: the script runs of one    *)
(* session of app.py.                                                      *)
(***************************************************************************)
EXTENDS Integers, Sequences, FiniteSets, TLC

(***************************************************************************)
(* Bounds of the model.                                                    *)
(***************************************************************************)
\* documents handed to summarize_chain and to chunk_documents
MaxDocs == 2

\* largest max_retries
MaxRetries == 2

\* chunks the splitter returns
MaxChunks == 2

\* documents handed to detect_content_type
MaxClsDocs == 4

\* files uploaded in the PDF mode
MaxFiles == 2

\* times a text is extended and estimated again
MaxTokSteps == 6

\* script runs of a session
MaxRuns == 6

\* characters of the short texts that are cleaned
MaxSanLen == 4

(***************************************************************************)
(* Program constants.                                                      *)
(***************************************************************************)
MAX_TOKENS == 6000

MIN_CHUNK_SIZE == 500

MAX_CHUNK_SIZE == 2000

CHUNK_OVERLAP == 300

\* generalUtils.py:289, len(result.strip()) < 50
MinSummaryLen == 50

\* generalUtils.py:66, len(doc.page_content.strip()) > 50
MinChunkLen == 50

\* generalUtils.py:102, technical_score > 3
TechnicalThreshold == 3

\* generalUtils.py:104, narrative_score > 2
NarrativeThreshold == 2

\* generalUtils.py:83, docs[:3]
SampleDocs == 3

\* generalUtils.py:358, len(cleaned_text) > 5000
NarrationCeiling == 5000

\* generalUtils.py:360, cleaned_text[:4800]
NarrationKeep == 4800

\* generalUtils.py:360, len("... Summary continues in text format.")
NoticeLen == 37

(***************************************************************************)
(* Sequences.                                                              *)
(***************************************************************************)
Front(s) == SubSeq(s, 1, Len(s) - 1)

Last(s) == s[Len(s)]

Take(s, n) == SubSeq(s, 1, IF Len(s) < n THEN Len(s) ELSE n)

RECURSIVE SumSeq(_)
SumSeq(s) == IF s = <<>> THEN 0 ELSE s[1] + SumSeq(Tail(s))

\* All sequences over S of length 0..n.
SeqsUpTo(S, n) == UNION {[1..k -> S] : k \in 0..n}

(***************************************************************************)
(* The vocabulary: length, lower-casing and keyword occurrence of a word.  *)
(***************************************************************************)
WordLen(w) ==
    CASE w = "The" -> 3
      [] w = "Algorithm" -> 9
      [] w = "API" -> 3
      [] w = "database" -> 8
      [] w = "class" -> 5
      [] w = "javascript" -> 10
      [] w = "data" -> 4
      [] w = "structure" -> 9
      [] w = "story" -> 5
      [] w = "plot" -> 4
      [] w = "Chapter" -> 7
      [] w = "History" -> 7
      [] w = "Title" -> 5
      [] w = "Summary" -> 7
      [] w = "generation" -> 10
      [] w = "failed" -> 6
      [] w = "after" -> 5
      [] w = "multiple" -> 8
      [] w = "attempts." -> 9
      [] w = "x^49" -> 49
      [] w = "x^50" -> 50
      [] w = "x^51" -> 51
      [] w = "x^41995" -> 41995
      [] w = "x^41996" -> 41996

\* str.lower()
Lower(w) ==
    CASE w = "The" -> "the"
      [] w = "Algorithm" -> "algorithm"
      [] w = "API" -> "api"
      [] w = "Chapter" -> "chapter"
      [] w = "History" -> "history"
      [] w = "Title" -> "title"
      [] w = "Summary" -> "summary"
      [] OTHER -> w

\* The indicators and structure markers k with `k in w' for a lower-cased
\* word w (Python's substring test): "java" occurs in "javascript", "story"
\* in "history".
KeywordsIn(w) ==
    CASE w = "algorithm" -> {"algorithm"}
      [] w = "api" -> {"api"}
      [] w = "database" -> {"database"}
      [] w = "class" -> {"class"}
      [] w = "javascript" -> {"javascript", "java"}
      [] w = "story" -> {"story"}
      [] w = "plot" -> {"plot"}
      [] w = "chapter" -> {"chapter"}
      [] w = "history" -> {"story"}
      [] w = "title" -> {"title"}
      [] OTHER -> {}

\* w.endswith("data"), w.startswith("structure"): the two halves of the one
\* indicator that holds a space, 'data structure'.
EndsWithData(w) == w = "data"

StartsWithStructure(w) == w = "structure"

(***************************************************************************)
(* Text: Python strings.                                                   *)
(***************************************************************************)
Txt(lead, ws, trail) ==
    [words |-> ws,
     gaps  |-> IF ws = <<>> THEN <<lead + trail>>
               ELSE <<lead>> \o [i \in 1..(Len(ws) - 1) |-> 1] \o <<trail>>]

EmptyText == Txt(0, <<>>, 0)

\* len(text)
StrLen(t) ==
    SumSeq(t.gaps) + SumSeq([i \in 1..Len(t.words) |-> WordLen(t.words[i])])

\* len(text.split())
WordCount(t) == Len(t.words)

\* text.strip()
Strip(t) ==
    IF t.words = <<>> THEN EmptyText
    ELSE [words |-> t.words,
          gaps  |-> <<0>> \o SubSeq(t.gaps, 2, Len(t.gaps) - 1) \o <<0>>]

\* a + " " + b
JoinTwo(a, b) ==
    [words |-> a.words \o b.words,
     gaps  |-> Front(a.gaps) \o <<Last(a.gaps) + 1 + Head(b.gaps)>> \o Tail(b.gaps)]

\* " ".join(texts)
RECURSIVE JoinSpace(_)
JoinSpace(ts) ==
    IF ts = <<>> THEN EmptyText
    ELSE IF Len(ts) = 1 THEN ts[1]
    ELSE JoinTwo(JoinSpace(Front(ts)), Last(ts))

\* text.lower()
LowerText(t) ==
    [words |-> [i \in 1..Len(t.words) |-> Lower(t.words[i])], gaps |-> t.gaps]

\* `needle in text' for a lower-cased text
Occurs(needle, t) ==
    IF needle = "data structure"
    THEN \E i \in 1..(Len(t.words) - 1) :
            /\ EndsWithData(t.words[i])
            /\ t.gaps[i + 1] = 1
            /\ StartsWithStructure(t.words[i + 1])
    ELSE \E i \in 1..Len(t.words) : needle \in KeywordsIn(t.words[i])

(***************************************************************************)
(* estimate_tokens: int((words * 1.3 + chars / 3.5) / 2), which is         *)
(* floor((91 * words + 20 * chars) / 140) on the non-negative rationals.   *)
(***************************************************************************)
\* A faulty estimate_tokens: the words are weighed only when there is more
\* than one.
estimate_tokens_no_single_word(text) ==
    IF StrLen(text) = 0 THEN 0
    ELSE (91 * (IF WordCount(text) > 1 THEN WordCount(text) ELSE 0)
          + 20 * StrLen(text)) \div 140

estimate_tokens(text) ==
    IF StrLen(text) = 0 THEN 0
    ELSE (91 * WordCount(text) + 20 * StrLen(text)) \div 140

(***************************************************************************)
(* detect_content_type                                                     *)
(***************************************************************************)
technical_indicators ==
    << "algorithm", "function", "method", "class", "variable", "data structure",
       "implementation", "code", "programming", "software", "api", "database",
       "framework", "library", "python", "javascript", "java", "c++", "sql" >>

narrative_indicators ==
    << "story", "character", "plot", "narrative", "chapter", "scene",
       "dialogue", "protagonist", "antagonist", "setting", "theme" >>

\* Occurrences of needle in a lower-cased text (str.count): what the
\* indicators would contribute if every occurrence were counted.
OccurrenceCount(needle, t) ==
    IF needle = "data structure"
    THEN Cardinality({i \in 1..(Len(t.words) - 1) :
            /\ EndsWithData(t.words[i])
            /\ t.gaps[i + 1] = 1
            /\ StartsWithStructure(t.words[i + 1])})
    ELSE Cardinality({i \in 1..Len(t.words) : needle \in KeywordsIn(t.words[i])})

\* A faulty Score: every occurrence of an indicator counts.
Score_occurrences(indicators, text_lower) ==
    SumSeq([i \in 1..Len(indicators) |-> OccurrenceCount(indicators[i], text_lower)])

\* sum(1 for indicator in indicators if indicator in text_lower)
Score(indicators, text_lower) ==
    Cardinality({i \in 1..Len(indicators) : Occurs(indicators[i], text_lower)})

\* " ".join(doc.page_content for doc in docs[:3]).lower()
SampleText(docs) == LowerText(JoinSpace(Take(docs, SampleDocs)))

technical_score(docs) == Score(technical_indicators, SampleText(docs))

narrative_score(docs) == Score(narrative_indicators, SampleText(docs))

\* A faulty detect_content_type: all the documents are sampled.
detect_content_type_all_docs(docs) ==
    LET text_lower == LowerText(JoinSpace(docs))
        t == Score(technical_indicators, text_lower)
        n == Score(narrative_indicators, text_lower)
    IN  IF docs = <<>> THEN "general"
        ELSE IF t > n /\ t > TechnicalThreshold THEN "technical"
        ELSE IF n > t /\ n > NarrativeThreshold THEN "narrative"
        ELSE "general"

detect_content_type(docs) ==
    IF docs = <<>> THEN "general"
    ELSE IF technical_score(docs) > narrative_score(docs)
            /\ technical_score(docs) > TechnicalThreshold THEN "technical"
    ELSE IF narrative_score(docs) > technical_score(docs)
            /\ narrative_score(docs) > NarrativeThreshold THEN "narrative"
    ELSE "general"

(***************************************************************************)
(* validate_summary_quality (defined in generalUtils.py, called nowhere)   *)
(***************************************************************************)
structure_markers == << "title", "introduction", "conclusion", "key", "main" >>

\* any(marker in summary.lower() for marker in [...])
HasMarker(summary) ==
    \E i \in 1..Len(structure_markers) :
        Occurs(structure_markers[i], LowerText(summary))

validate_summary_quality(summary) ==
    IF StrLen(summary) = 0
        THEN [ok |-> FALSE, msg |-> "Summary is empty or invalid"]
    ELSE IF StrLen(Strip(summary)) < 100
        THEN [ok |-> FALSE, msg |-> "Summary is too short"]
    ELSE IF StrLen(Strip(summary)) > 10000
        THEN [ok |-> FALSE, msg |-> "Summary is too long"]
    ELSE IF ~HasMarker(Strip(summary))
        THEN [ok |-> FALSE, msg |-> "Summary lacks proper structure"]
    ELSE IF WordCount(Strip(summary)) < 50
        THEN [ok |-> FALSE, msg |-> "Summary has too few words"]
    ELSE [ok |-> TRUE, msg |-> "Summary quality is acceptable"]

(***************************************************************************)
(* Strings character by character, for clean_text_for_audio.  A string is  *)
(* a sequence of characters [c, n]: n is 1, except that [c |-> "x",        *)
(* n |-> k] stands for k letters x in a row.                               *)
(***************************************************************************)
Ch(c) == [c |-> c, n |-> 1]

Letters(k) == [c |-> "x", n |-> k]

Str(cs) == [i \in 1..Len(cs) |-> Ch(cs[i])]

\* len(text)
CharsLen(s) == SumSeq([i \in 1..Len(s) |-> s[i].n])

\* str.upper() of a letter
Upper(c) ==
    CASE c = "a" -> "A"
      [] c = "b" -> "B"
      [] c = "c" -> "C"
      [] c = "d" -> "D"
      [] c = "e" -> "E"
      [] c = "f" -> "F"
      [] c = "g" -> "G"
      [] c = "h" -> "H"
      [] c = "i" -> "I"
      [] c = "j" -> "J"
      [] c = "k" -> "K"
      [] c = "l" -> "L"
      [] c = "m" -> "M"
      [] c = "n" -> "N"
      [] c = "o" -> "O"
      [] c = "p" -> "P"
      [] c = "q" -> "Q"
      [] c = "r" -> "R"
      [] c = "s" -> "S"
      [] c = "t" -> "T"
      [] c = "u" -> "U"
      [] c = "v" -> "V"
      [] c = "w" -> "W"
      [] c = "x" -> "X"
      [] c = "y" -> "Y"
      [] c = "z" -> "Z"
      [] OTHER -> c

Capitals == { "A", "B", "C", "D", "E", "F", "G", "H", "I", "J", "K", "L",
              "M", "N", "O", "P", "Q", "R", "S", "T", "U", "V", "W", "X",
              "Y", "Z" }

Digits == { "0", "1", "2", "3", "4", "5", "6", "7", "8", "9" }

\* \s
IsSpace(ch) == ch.c \in { " ", "\n", "\t" }

\* \d
IsDigit(ch) == ch.c \in Digits

\* \w
IsWordChar(ch) == Upper(ch.c) \in Capitals \/ ch.c \in Digits \/ ch.c = "_"

\* . (any character but the newline)
NotNewline(ch) == ch.c # "\n"

IsHash(ch) == ch.c = "#"

\* ch is of the class "space" (\s), "digit" (\d), "hash" (#) or "line" (.)
InClass(class, ch) ==
    CASE class = "space" -> IsSpace(ch)
      [] class = "digit" -> IsDigit(ch)
      [] class = "hash" -> IsHash(ch)
      [] class = "line" -> NotNewline(ch)

\* How many characters from position i on are of the class, as a greedy
\* quantifier takes them.
Run(s, i, class) ==
    LET K == { k \in 0..(Len(s) - i + 1) :
                 \A j \in i..(i + k - 1) : InClass(class, s[j]) }
    IN  CHOOSE k \in K : \A m \in K : m <= k

\* How many characters at the end of s are of the class.
RunBack(s, class) ==
    LET K == { k \in 0..Len(s) :
                 \A j \in (Len(s) - k + 1)..Len(s) : InClass(class, s[j]) }
    IN  CHOOSE k \in K : \A m \in K : m <= k

Least(S) == CHOOSE k \in S : \A m \in S : k <= m

From(s, i) == SubSeq(s, i, Len(s))

\* ''.join(ss)
RECURSIVE Concat(_)
Concat(ss) ==
    IF ss = <<>> THEN <<>>
    ELSE IF Len(ss) = 1 THEN ss[1]
    ELSE LET h == Len(ss) \div 2
         IN  Concat(SubSeq(ss, 1, h)) \o Concat(SubSeq(ss, h + 1, Len(ss)))

\* text.strip()
CharsStrip(s) ==
    LET a == Run(s, 1, "space")
    IN  IF a = Len(s) THEN <<>>
        ELSE SubSeq(s, a + 1, Len(s) - RunBack(s, "space"))

\* Where the closing delimiter of d{k}(.*?)d{k} starts for a match at the
\* head of s; 0 when there is no match there.
DelimClose(s, d, k) ==
    IF Len(s) >= 2 * k /\ \A i \in 1..k : s[i].c = d
    THEN LET J == { j \in (k + 1)..(Len(s) - k + 1) :
                      /\ \A i \in j..(j + k - 1) : s[i].c = d
                      /\ \A i \in (k + 1)..(j - 1) : NotNewline(s[i]) }
         IN  IF J = {} THEN 0 ELSE Least(J)
    ELSE 0

\* re.sub of d{k}(.*?)d{k} by \1: lines 306, 307 and 309
RECURSIVE Unwrap(_, _, _)
Unwrap(s, d, k) ==
    IF s = <<>> THEN <<>>
    ELSE LET j == DelimClose(s, d, k)
         IN  IF j > 0
             THEN SubSeq(s, k + 1, j - 1) \o Unwrap(From(s, j + k), d, k)
             ELSE << s[1] >> \o Unwrap(Tail(s), d, k)

\* re.sub(r'#{1,6}\s*(.*)', r'\1', text) (line 308)
RECURSIVE Headers(_)
Headers(s) ==
    IF s = <<>> THEN <<>>
    ELSE IF IsHash(s[1])
    THEN LET hs == Run(s, 1, "hash")
             h == IF hs > 6 THEN 6 ELSE hs
             w == Run(s, h + 1, "space")
             r == Run(s, h + w + 1, "line")
         IN  SubSeq(s, h + w + 1, h + w + r) \o Headers(From(s, h + w + r + 1))
    ELSE << s[1] >> \o Headers(Tail(s))

\* The match of \[(.*?)\]\(.*?\) at the head of s: where the ] and the )
\* are; close 0 when there is no match there.
LinkMatch(s) ==
    IF s # <<>> /\ s[1].c = "["
    THEN LET Ends(j) == { k \in (j + 2)..Len(s) :
                            /\ s[k].c = ")"
                            /\ \A i \in (j + 2)..(k - 1) : NotNewline(s[i]) }
             J == { j \in 2..(Len(s) - 2) :
                      /\ s[j].c = "]"
                      /\ s[j + 1].c = "("
                      /\ \A i \in 2..(j - 1) : NotNewline(s[i])
                      /\ Ends(j) # {} }
         IN  IF J = {} THEN [close |-> 0, end |-> 0]
             ELSE [close |-> Least(J), end |-> Least(Ends(Least(J)))]
    ELSE [close |-> 0, end |-> 0]

\* re.sub(r'\[(.*?)\]\(.*?\)', r'\1', text) (line 310)
RECURSIVE Links(_)
Links(s) ==
    IF s = <<>> THEN <<>>
    ELSE LET m == LinkMatch(s)
         IN  IF m.close > 0
             THEN SubSeq(s, 2, m.close - 1) \o Links(From(s, m.end + 1))
             ELSE << s[1] >> \o Links(Tail(s))

\* [#*_><backtick>\-\u2022]: "backtick" and "bullet" are the characters
\* U+0060 and U+2022
MarkupChars == { "#", "*", "_", ">", "backtick", "-", "bullet" }

IsMarkupChar(ch) == ch.c \in MarkupChars

NotMarkupChar(ch) == ~IsMarkupChar(ch)

\* re.sub(r'[#*_><backtick>\-\u2022]', '', text) (line 316)
DropMarkupChars(s) == SelectSeq(s, NotMarkupChar)

\* A faulty NumberedPrefixes: a prefix that follows a removed prefix is
\* removed too.
RECURSIVE NumberedPrefixes_repeated(_, _)
NumberedPrefixes_repeated(s, line_start) ==
    IF s = <<>> THEN <<>>
    ELSE LET w == Run(s, 1, "space")
             d == Run(s, w + 1, "digit")
             hit == /\ line_start
                    /\ d >= 1
                    /\ Len(s) >= w + d + 1
                    /\ s[w + d + 1].c = "."
             e == w + d + 1 + Run(s, w + d + 2, "space")
         IN  IF hit
             THEN NumberedPrefixes_repeated(From(s, e + 1), TRUE)
             ELSE << s[1] >> \o NumberedPrefixes_repeated(Tail(s), s[1].c = "\n")

\* re.sub(r'^\s*[\d]+\.\s*', '', text, flags=re.MULTILINE) (line 317);
\* line_start: the head of s is at the start of the text or after a newline
RECURSIVE NumberedPrefixes(_, _)
NumberedPrefixes(s, line_start) ==
    IF s = <<>> THEN <<>>
    ELSE LET w == Run(s, 1, "space")
             d == Run(s, w + 1, "digit")
             hit == /\ line_start
                    /\ d >= 1
                    /\ Len(s) >= w + d + 1
                    /\ s[w + d + 1].c = "."
             e == w + d + 1 + Run(s, w + d + 2, "space")
         IN  IF hit
             THEN NumberedPrefixes(From(s, e + 1), s[e].c = "\n")
             ELSE << s[1] >> \o NumberedPrefixes(Tail(s), s[1].c = "\n")

IsBullet(ch) == ch.c \in { "bullet", "-" }

\* re.sub(r'^\s*[\u2022\-]\s*', '', text, flags=re.MULTILINE) (line 318)
RECURSIVE BulletPrefixes(_, _)
BulletPrefixes(s, line_start) ==
    IF s = <<>> THEN <<>>
    ELSE LET w == Run(s, 1, "space")
             hit == /\ line_start
                    /\ Len(s) >= w + 1
                    /\ IsBullet(s[w + 1])
             e == w + 1 + Run(s, w + 2, "space")
         IN  IF hit
             THEN BulletPrefixes(From(s, e + 1), s[e].c = "\n")
             ELSE << s[1] >> \o BulletPrefixes(Tail(s), s[1].c = "\n")

\* re.sub(r'(?<=[^\.\!\?])\n', '. ', text) (line 321)
NewlinesToStops(s) ==
    Concat([i \in 1..Len(s) |->
        IF s[i].c = "\n" /\ i > 1 /\ s[i - 1].c \notin { ".", "!", "?" }
        THEN << Ch("."), Ch(" ") >>
        ELSE << s[i] >>])

\* re.sub(r'\n+', ' ', text) (line 322)
NewlinesToSpace(s) ==
    Concat([i \in 1..Len(s) |->
        IF s[i].c = "\n"
        THEN (IF i > 1 /\ s[i - 1].c = "\n" THEN <<>> ELSE << Ch(" ") >>)
        ELSE << s[i] >>])

\* re.sub(r'\s{2,}', ' ', text) (line 323)
SqueezeSpaces(s) ==
    Concat([i \in 1..Len(s) |->
        IF IsSpace(s[i])
        THEN (IF i > 1 /\ IsSpace(s[i - 1]) THEN <<>>
              ELSE IF i < Len(s) /\ IsSpace(s[i + 1]) THEN << Ch(" ") >>
              ELSE << s[i] >>)
        ELSE << s[i] >>])

\* The dictionary of lines 326-340, in its order.
abbreviations ==
    <<
       [abbr |-> << "A", "P", "I" >>,
        say |-> Str(<< "A", " ", "P", " ", "I" >>)],
       [abbr |-> << "U", "R", "L" >>,
        say |-> Str(<< "U", " ", "R", " ", "L" >>)],
       [abbr |-> << "H", "T", "M", "L" >>,
        say |-> Str(<< "H", " ", "T", " ", "M", " ", "L" >>)],
       [abbr |-> << "C", "S", "S" >>,
        say |-> Str(<< "C", " ", "S", " ", "S" >>)],
       [abbr |-> << "J", "S" >>,
        say |-> Str(<< "J", "a", "v", "a", "S", "c", "r", "i", "p", "t" >>)],
       [abbr |-> << "A", "I" >>,
        say |-> Str(<< "A", " ", "I" >>)],
       [abbr |-> << "M", "L" >>,
        say |-> Str(<< "M", "a", "c", "h", "i", "n", "e", " ", "L", "e", "a", "r",
                "n", "i", "n", "g" >>)],
       [abbr |-> << "N", "L", "P" >>,
        say |-> Str(<< "N", "a", "t", "u", "r", "a", "l", " ", "L", "a", "n", "g",
                "u", "a", "g", "e", " ", "P", "r", "o", "c", "e", "s", "s", "i", "n",
                "g" >>)],
       [abbr |-> << "P", "D", "F" >>,
        say |-> Str(<< "P", " ", "D", " ", "F" >>)],
       [abbr |-> << "C", "E", "O" >>,
        say |-> Str(<< "C", " ", "E", " ", "O" >>)],
       [abbr |-> << "C", "T", "O" >>,
        say |-> Str(<< "C", " ", "T", " ", "O" >>)],
       [abbr |-> << "U", "S", "A" >>,
        say |-> Str(<< "U", "n", "i", "t", "e", "d", " ", "S", "t", "a", "t", "e", "s"
                >>)],
       [abbr |-> << "U", "K" >>,
        say |-> Str(<< "U", "n", "i", "t", "e", "d", " ", "K", "i", "n", "g", "d",
                "o", "m" >>)] >>

\* re.sub(r'\b' + re.escape(abbr) + r'\b', replacement, text,
\* flags=re.IGNORECASE) (line 343).  A match is a whole word, so matches
\* never overlap and every one of them is replaced.
ReplaceWord(s, abbr, say) ==
    LET m == Len(abbr)
        HitAt(i) ==
            /\ i >= 1
            /\ i + m - 1 <= Len(s)
            /\ i = 1 \/ ~IsWordChar(s[i - 1])
            /\ \A k \in 1..m : s[i + k - 1].n = 1 /\ Upper(s[i + k - 1].c) = abbr[k]
            /\ i + m - 1 = Len(s) \/ ~IsWordChar(s[i + m])
    IN  Concat([i \in 1..Len(s) |->
            IF HitAt(i) THEN say
            ELSE IF \E j \in (i - m + 1)..(i - 1) : HitAt(j) THEN <<>>
            ELSE << s[i] >>])

\* The loop of lines 342-343.
RECURSIVE ExpandAbbreviations(_, _)
ExpandAbbreviations(s, table) ==
    IF table = <<>> THEN s
    ELSE ExpandAbbreviations(ReplaceWord(s, table[1].abbr, table[1].say),
                             Tail(table))

\* Lines 301-345.
clean_text_for_audio(text) ==
    IF text = <<>> THEN <<>>
    ELSE LET unwrapped == Links(Unwrap(Headers(Unwrap(Unwrap(text, "*", 2), "*", 1)), "backtick", 1))
             plain == BulletPrefixes(NumberedPrefixes(DropMarkupChars(unwrapped), TRUE), TRUE)
             spoken == SqueezeSpaces(NewlinesToSpace(NewlinesToStops(plain)))
         IN  CharsStrip(ExpandAbbreviations(spoken, abbreviations))

(***************************************************************************)
(* chunk_documents.  RecursiveCharacterTextSplitter is a library: what     *)
(* split_documents does is an input of the model, split.throws when it     *)
(* raises and split.out, the documents it returns, otherwise.              *)
(***************************************************************************)
chunk_size(content_type) ==
    IF content_type = "technical" THEN MIN_CHUNK_SIZE
    ELSE IF content_type = "narrative" THEN MAX_CHUNK_SIZE
    ELSE 1200

chunk_overlap(content_type) ==
    IF content_type = "technical" THEN 200
    ELSE IF content_type = "narrative" THEN CHUNK_OVERLAP
    ELSE 250

\* A faulty KeepChunk: >= for >.
KeepChunk_inclusive(doc) == StrLen(Strip(doc)) >= MinChunkLen

\* len(doc.page_content.strip()) > 50 (line 66)
KeepChunk(doc) == StrLen(Strip(doc)) > MinChunkLen

\* A faulty chunk_documents: the fallback filters the documents too.
chunk_documents_filtered_fallback(docs, content_type, split) ==
    IF split.throws THEN SelectSeq(docs, KeepChunk)
    ELSE SelectSeq(split.out, KeepChunk)

\* lines 63-69 when the splitter returns, lines 70-73 when it raises
chunk_documents(docs, content_type, split) ==
    IF split.throws THEN docs
    ELSE SelectSeq(split.out, KeepChunk)

(***************************************************************************)
(* The inputs of the model.                                                *)
(***************************************************************************)
\* Documents handed to summarize_chain: a blank one, a short technical one,
\* and two long ones on either side of the MAX_TOKENS estimate.
SumPool ==
    { Txt(2, <<>>, 0),
      Txt(0, <<"Algorithm", "API", "database", "class">>, 0),
      Txt(0, <<"x^41995">>, 0), Txt(0, <<"x^41996">>, 0) }

\* Chunks the splitter may return (stripped, as the library returns them).
ChunkPool == { Txt(0, <<"x^50">>, 0), Txt(0, <<"x^51">>, 0) }

SplitOutcomes(content_type) ==
    { [throws |-> TRUE, out |-> <<>>] } \cup
    { [throws |-> FALSE, out |-> o] :
        o \in { c \in SeqsUpTo(ChunkPool, MaxChunks) :
                  \A i \in 1..Len(c) : StrLen(c[i]) <= chunk_size(content_type) } }

\* Completions of the LLM: empty, too short once trimmed, long enough
\* without a structure marker, long enough with one.
LLMOutputs ==
    { EmptyText, Txt(1, <<"x^49">>, 1), Txt(1, <<"x^50">>, 1),
      Txt(0, <<"Title", "x^50">>, 0) }

\* Messages of the exceptions an LLM call raises.
LLMErrors == { "Rate limit exceeded" }

(***************************************************************************)
(* summarize_chain: the state of one call.                                 *)
(***************************************************************************)
VARIABLES
    docs,           \* argument docs
    max_retries,    \* argument max_retries
    pc,             \* "start", "loop", "map", "llm", "done"
    clean_docs,     \* docs after line 255
    content_type,   \* line 260
    total_tokens,   \* line 265
    attempt,        \* the loop variable of line 271
    strategy,       \* chain_type of the attempt that runs or returned, or "none"
    chunked_docs,   \* line 279
    chain_docs,     \* the documents handed to chain.run in that attempt
    map_done,       \* map calls of the current attempt that returned
    call,           \* the LLM call in flight, kind "none" when there is none
    result,         \* line 276 / 286: result of the last finished chain.run
    outcome,        \* how the call of summarize_chain ended
    failures,       \* history: the exception message of every failed attempt
    attempt_calls,  \* history: LLM calls issued in the current attempt
    total_calls,    \* history: LLM calls issued in this call
    chunker_runs,   \* history: calls of chunk_documents in the current attempt
    split_raised    \* history: split_documents raised in that call (line 70)

sumVars ==
    << docs, max_retries, pc, clean_docs, content_type, total_tokens, attempt,
       strategy, chunked_docs, chain_docs, map_done, call, result, outcome,
       failures, attempt_calls, total_calls, chunker_runs, split_raised >>

(***************************************************************************)
(* detect_content_type called on its own: the classified list and label.   *)
(***************************************************************************)
VARIABLES
    cls_docs,       \* the documents classified
    cls_label,      \* what detect_content_type returned for them
    cls_pc          \* "idle", "input", "classified"

clsVars == << cls_docs, cls_label, cls_pc >>

(***************************************************************************)
(* The temporary files: the PDF mode of app.py and generate_audio.         *)
(***************************************************************************)
VARIABLES
    uploaded_files, \* the uploads: [name, kind], kind good | scanned | corrupt
    pdf_pc,         \* "idle", "click", "write", "load", "remove", "summarize", "done"
    pdf_i,          \* index of the upload being processed
    pdf_disk,       \* names of the files the PDF mode wrote that exist
    all_docs,       \* number of documents extracted so far
    pdf_outcome,    \* "none", "warning", "summary", "no_text", "error"
    summary_text,   \* argument of generate_audio: "empty", "blank", "text"
    audio_pc,       \* "idle", "start", "create", "save", "read", "fallback",
                    \* "fb_create", "fb_save", "fb_read", "done"
    audio_disk,     \* the temporary .mp3 files that exist
    audio_error,    \* the exception e the outer except block caught
    audio_outcome   \* "none", "audio", "fallback_audio", "RuntimeError"

fileVars ==
    << uploaded_files, pdf_pc, pdf_i, pdf_disk, all_docs, pdf_outcome,
       summary_text, audio_pc, audio_disk, audio_error, audio_outcome >>

(***************************************************************************)
(* chunk_documents called on its own: its arguments, what the splitter     *)
(* does in that call, and what the call returns.                           *)
(***************************************************************************)
VARIABLES
    chk_docs,       \* argument docs
    chk_type,       \* argument content_type
    chk_split,      \* what split_documents does: [throws, out]
    chk_out,        \* the list chunk_documents returned
    chk_pc          \* "idle", "call", "returned"

chkVars == << chk_docs, chk_type, chk_split, chk_out, chk_pc >>

(***************************************************************************)
(* estimate_tokens called on a text and on the texts got by appending to   *)
(* it.                                                                     *)
(***************************************************************************)
VARIABLES
    tok_text,       \* argument text of the last call
    tok_est,        \* what the last call returned
    tok_prefix_max, \* history: the largest value returned for a prefix of text
    tok_steps,      \* history: how many times the text was extended
    tok_pc          \* "idle", "input", "estimated"

tokVars == << tok_text, tok_est, tok_prefix_max, tok_steps, tok_pc >>

(***************************************************************************)
(* app.py: one browser session.  The script runs from its top at every     *)
(* widget event; st.session_state lives across the runs.                   *)
(***************************************************************************)
VARIABLES
    ses_key,        \* groq_api_key: the value of the sidebar text input
    ses_llm,        \* st.session_state.llm
    ses_mode,       \* st.session_state.mode, "none" for None
    ses_created,    \* history: ChatGroq handles constructed in the session
    ses_runs,       \* history: script runs of the session
    ses_first_key,  \* history: the key of the first run with a non-empty key
    ses_last        \* history: what the last event's script run did

sesVars ==
    << ses_key, ses_llm, ses_mode, ses_created, ses_runs, ses_first_key, ses_last >>

(***************************************************************************)
(* clean_text_for_audio called on a text and on its own result, and the    *)
(* start of generate_audio (lines 350-360) on the same text.               *)
(***************************************************************************)
VARIABLES
    san_text,       \* the argument: text, or summary_text of generate_audio
    san_clean,      \* clean_text_for_audio(text)
    san_twice,      \* clean_text_for_audio of that
    san_handed,     \* cleaned_text as gTTS gets it (line 363)
    san_pc          \* "idle", "input", "cleaned", "twice", "handed", "rejected"

sanVars == << san_text, san_clean, san_twice, san_handed, san_pc >>

extVars == << chkVars, tokVars, sesVars, sanVars >>

vars == << sumVars, clsVars, fileVars, extVars >>

IdleSum ==
    /\ docs = <<>>
    /\ max_retries = 0
    /\ pc = "idle"
    /\ clean_docs = <<>>
    /\ content_type = "none"
    /\ total_tokens = 0
    /\ attempt = 0
    /\ strategy = "none"
    /\ chunked_docs = <<>>
    /\ chain_docs = <<>>
    /\ map_done = 0
    /\ call = [kind |-> "none", prompt |-> "none", arg |-> 0]
    /\ result = EmptyText
    /\ outcome = [kind |-> "none", value |-> EmptyText, attempts |-> 0, msg |-> ""]
    /\ failures = <<>>
    /\ attempt_calls = [stuff |-> 0, map |-> 0, combine |-> 0]
    /\ total_calls = 0
    /\ chunker_runs = 0
    /\ split_raised = FALSE

IdleCls == cls_docs = <<>> /\ cls_label = "none" /\ cls_pc = "idle"

IdlePdf ==
    /\ uploaded_files = <<>>
    /\ pdf_pc = "idle"
    /\ pdf_i = 0
    /\ pdf_disk = {}
    /\ all_docs = 0
    /\ pdf_outcome = "none"

IdleAudio ==
    /\ summary_text = "empty"
    /\ audio_pc = "idle"
    /\ audio_disk = {}
    /\ audio_error = "none"
    /\ audio_outcome = "none"

IdleChk ==
    /\ chk_docs = <<>>
    /\ chk_type = "general"
    /\ chk_split = [throws |-> TRUE, out |-> <<>>]
    /\ chk_out = <<>>
    /\ chk_pc = "idle"

IdleTok ==
    /\ tok_text = EmptyText
    /\ tok_est = 0
    /\ tok_prefix_max = 0
    /\ tok_steps = 0
    /\ tok_pc = "idle"

\* st.session_state.llm is None
NoHandle == [api_key |-> "", model_name |-> "none"]

\* ChatGroq(api_key=groq_api_key, model_name="gemma2-9b-it") (lines 192-195)
NewHandle(key) == [api_key |-> key, model_name |-> "gemma2-9b-it"]

NoRun ==
    [key |-> "", stopped |-> TRUE, created |-> FALSE, processed |-> "none",
     used |-> NoHandle]

IdleSes ==
    /\ ses_key = ""
    /\ ses_llm = NoHandle
    /\ ses_mode = "none"
    /\ ses_created = 0
    /\ ses_runs = 0
    /\ ses_first_key = ""
    /\ ses_last = NoRun

IdleSan ==
    /\ san_text = <<>>
    /\ san_clean = <<>>
    /\ san_twice = <<>>
    /\ san_handed = <<>>
    /\ san_pc = "idle"

IdleExt == IdleChk /\ IdleTok /\ IdleSes /\ IdleSan

NoCall == [kind |-> "none", prompt |-> "none", arg |-> 0]

NoCalls == [stuff |-> 0, map |-> 0, combine |-> 0]

Pending == [kind |-> "none", value |-> EmptyText, attempts |-> 0, msg |-> ""]

Returned(text) == [kind |-> "return", value |-> text, attempts |-> 0, msg |-> ""]

Raised(kind, n, msg) == [kind |-> kind, value |-> EmptyText, attempts |-> n, msg |-> msg]

\* "Summary generation failed after multiple attempts." (line 299)
FallbackText ==
    Txt(0, <<"Summary", "generation", "failed", "after", "multiple", "attempts.">>, 0)

\* A faulty IsBlank: the strip is left out.
IsBlank_no_strip(doc) == StrLen(doc) = 0

\* doc.page_content.strip() is falsy (line 255)
IsBlank(doc) == StrLen(Strip(doc)) = 0

NonBlank(doc) == ~IsBlank(doc)

\* A faulty UseStuff: <= for <.
UseStuff_inclusive(tokens) == tokens <= MAX_TOKENS

\* total_tokens < MAX_TOKENS (line 273)
UseStuff(tokens) == tokens < MAX_TOKENS

\* A faulty ValidResult: the length of the untrimmed result is tested.
ValidResult_no_strip(r) == ~(StrLen(r) = 0 \/ StrLen(r) < MinSummaryLen)

\* A ValidResult that also asks for a structure marker, which line 289
\* does not.
ValidResult_with_marker(r) ==
    ~(StrLen(r) = 0 \/ StrLen(Strip(r)) < MinSummaryLen) /\ HasMarker(r)

\* not (not result or len(result.strip()) < 50) (line 289)
ValidResult(r) == ~(StrLen(r) = 0 \/ StrLen(Strip(r)) < MinSummaryLen)

\* A faulty ReturnValue: the result is returned untrimmed.
ReturnValue_raw(r) == r

\* result.strip() (line 292)
ReturnValue(r) == Strip(r)

\* A faulty LastAttempt: attempt == max_retries.
LastAttempt_off_by_one(a, n) == a = n

\* attempt == max_retries - 1 (line 296)
LastAttempt(a, n) == a = n - 1

\* RuntimeError(f"Failed to generate summary after {max_retries} attempts: {e}")
ExhaustedError(n, e) == Raised("RuntimeError", n, e)

\* A faulty MapReduceInput: chain.run(docs).
MapReduceInput_docs(input_docs, chunks) == input_docs

\* the documents chain.run gets in a map_reduce attempt (line 286)
MapReduceInput(input_docs, chunks) == chunks

\* A faulty AllMapped: the combine call does not wait for the last map call.
AllMapped_early(done, input_docs) == done >= Len(input_docs) - 1

\* the map step of the map_reduce chain is over: every document of the
\* chain's input has its summary (chain.run, line 286)
AllMapped(done, input_docs) == done = Len(input_docs)

InitSum ==
    /\ docs \in SeqsUpTo(SumPool, MaxDocs)
    /\ max_retries \in 0..MaxRetries
    /\ pc = "start"
    /\ clean_docs = <<>>
    /\ content_type = "none"
    /\ total_tokens = 0
    /\ attempt = 0
    /\ strategy = "none"
    /\ chunked_docs = <<>>
    /\ chain_docs = <<>>
    /\ map_done = 0
    /\ call = NoCall
    /\ result = EmptyText
    /\ outcome = Pending
    /\ failures = <<>>
    /\ attempt_calls = NoCalls
    /\ total_calls = 0
    /\ chunker_runs = 0
    /\ split_raised = FALSE
    /\ IdleCls
    /\ IdlePdf
    /\ IdleAudio
    /\ IdleExt

\* Lines 251-269: the input checks, the content type, the token estimate.
Start ==
    /\ pc = "start"
    /\ UNCHANGED << clsVars, fileVars, extVars >>
    /\ IF docs = <<>>
       THEN /\ outcome' = Raised("ValueError", 0, "No documents provided for summarization")
            /\ pc' = "done"
            /\ UNCHANGED << clean_docs, content_type, total_tokens >>
       ELSE IF SelectSeq(docs, NonBlank) = <<>>
       THEN /\ outcome' = Raised("ValueError", 0, "All documents are empty")
            /\ pc' = "done"
            /\ clean_docs' = <<>>
            /\ UNCHANGED << content_type, total_tokens >>
       ELSE /\ clean_docs' = SelectSeq(docs, NonBlank)
            /\ content_type' = detect_content_type(clean_docs')
            /\ total_tokens' = estimate_tokens(JoinSpace(clean_docs'))
            /\ pc' = "loop"
            /\ UNCHANGED outcome
    /\ UNCHANGED << docs, max_retries, attempt, strategy, chunked_docs, chain_docs,
                    map_done, call, result, failures, attempt_calls, total_calls,
                    chunker_runs,
                    split_raised >>

\* An LLM call is issued: the chain invokes the model and waits for it.
Issue(kind, arg) ==
    /\ call' = [kind |-> kind, prompt |-> content_type, arg |-> arg]
    /\ attempt_calls' = [attempt_calls EXCEPT ![kind] = @ + 1]
    /\ total_calls' = total_calls + 1
    /\ pc' = "llm"

\* Lines 273-276: an attempt with the stuff chain, one call over all documents.
BeginStuff ==
    /\ pc = "loop"
    /\ UNCHANGED << clsVars, fileVars, extVars >>
    /\ attempt < max_retries
    /\ UseStuff(total_tokens)
    /\ strategy' = "stuff"
    /\ chain_docs' = clean_docs
    /\ map_done' = 0
    /\ chunker_runs' = 0
    /\ split_raised' = FALSE
    /\ call' = [kind |-> "stuff", prompt |-> content_type, arg |-> 0]
    /\ attempt_calls' = [NoCalls EXCEPT !.stuff = 1]
    /\ total_calls' = total_calls + 1
    /\ pc' = "llm"
    /\ UNCHANGED << docs, max_retries, clean_docs, content_type, total_tokens,
                    attempt, chunked_docs, result, outcome, failures >>

\* Lines 277-286: an attempt with the map_reduce chain starts by chunking.
BeginMapReduce ==
    /\ pc = "loop"
    /\ UNCHANGED << clsVars, fileVars, extVars >>
    /\ attempt < max_retries
    /\ ~UseStuff(total_tokens)
    /\ \E split \in SplitOutcomes(content_type) :
          /\ chunked_docs' = chunk_documents(clean_docs, content_type, split)
          /\ chain_docs' = MapReduceInput(clean_docs, chunked_docs')
          /\ split_raised' = split.throws
    /\ strategy' = "map_reduce"
    /\ chunker_runs' = 1
    /\ map_done' = 0
    /\ attempt_calls' = NoCalls
    /\ pc' = "map"
    /\ UNCHANGED << docs, max_retries, clean_docs, content_type, total_tokens,
                    attempt, call, result, outcome, failures, total_calls >>

\* The map step: one call per document of the chain's input, in order.
IssueMap ==
    /\ pc = "map"
    /\ UNCHANGED << clsVars, fileVars, extVars >>
    /\ map_done < Len(chain_docs)
    /\ Issue("map", map_done + 1)
    /\ UNCHANGED << docs, max_retries, clean_docs, content_type, total_tokens,
                    attempt, strategy, chunked_docs, chain_docs, map_done, result,
                    outcome, failures, chunker_runs,
                    split_raised >>

\* The combine step: one call over the summaries, after the last map call.
IssueCombine ==
    /\ pc = "map"
    /\ UNCHANGED << clsVars, fileVars, extVars >>
    /\ AllMapped(map_done, chain_docs)
    /\ Issue("combine", 0)
    /\ UNCHANGED << docs, max_retries, clean_docs, content_type, total_tokens,
                    attempt, strategy, chunked_docs, chain_docs, map_done, result,
                    outcome, failures, chunker_runs,
                    split_raised >>

\* Lines 294-297: the except block of an attempt that raised e.  The
\* attempt is over: the chain and the history of its calls are dropped.
AttemptFailed(e) ==
    /\ failures' = Append(failures, e)
    /\ strategy' = "none"
    /\ chain_docs' = <<>>
    /\ map_done' = 0
    /\ attempt_calls' = NoCalls
    /\ chunker_runs' = 0
    /\ split_raised' = FALSE
    /\ IF LastAttempt(attempt, max_retries)
       THEN /\ outcome' = ExhaustedError(max_retries, e)
            /\ pc' = "done"
            /\ UNCHANGED attempt
       ELSE /\ attempt' = attempt + 1
            /\ pc' = "loop"
            /\ UNCHANGED outcome

\* A map call returns (whatever completion): the chain keeps it for the
\* combine prompt and goes on with the next document.
MapReturns ==
    /\ pc = "llm"
    /\ UNCHANGED << clsVars, fileVars, extVars >>
    /\ call.kind = "map"
    /\ map_done' = map_done + 1
    /\ call' = NoCall
    /\ pc' = "map"
    /\ UNCHANGED << docs, max_retries, clean_docs, content_type, total_tokens,
                    attempt, strategy, chunked_docs, chain_docs, result, outcome,
                    failures, attempt_calls, total_calls, chunker_runs,
                    split_raised >>

\* The stuff or the combine call returns r: chain.run returns it, and lines
\* 288-292 validate it and return it, or raise into the except block.
ChainReturns ==
    /\ pc = "llm"
    /\ UNCHANGED << clsVars, fileVars, extVars >>
    /\ call.kind \in {"stuff", "combine"}
    /\ \E r \in LLMOutputs :
          /\ result' = r
          /\ IF ValidResult(r)
             THEN /\ outcome' = Returned(ReturnValue(r))
                  /\ pc' = "done"
                  /\ UNCHANGED << attempt, failures, strategy, chain_docs,
                                  map_done, attempt_calls, chunker_runs,
                                  split_raised >>
             ELSE AttemptFailed("Generated summary is too short")
    /\ call' = NoCall
    /\ UNCHANGED << docs, max_retries, clean_docs, content_type, total_tokens,
                    chunked_docs, total_calls >>

\* An LLM call raises: chain.run raises, into the except block.
LLMRaises ==
    /\ pc = "llm"
    /\ UNCHANGED << clsVars, fileVars, extVars >>
    /\ \E e \in LLMErrors : AttemptFailed(e)
    /\ call' = NoCall
    /\ UNCHANGED << docs, max_retries, clean_docs, content_type, total_tokens,
                    chunked_docs, result, total_calls >>

\* Line 299: the loop ended without a return or a raise.
LoopEnds ==
    /\ pc = "loop"
    /\ UNCHANGED << clsVars, fileVars, extVars >>
    /\ ~(attempt < max_retries)
    /\ outcome' = Returned(FallbackText)
    /\ pc' = "done"
    /\ UNCHANGED << docs, max_retries, clean_docs, content_type, total_tokens,
                    attempt, strategy, chunked_docs, chain_docs, map_done, call,
                    result, failures, attempt_calls, total_calls, chunker_runs,
                    split_raised >>

NextSum ==
    \/ Start
    \/ BeginStuff
    \/ BeginMapReduce
    \/ IssueMap
    \/ IssueCombine
    \/ MapReturns
    \/ ChainReturns
    \/ LLMRaises
    \/ LoopEnds

Spec == InitSum /\ [][NextSum]_vars

(***************************************************************************)
(* detect_content_type on its own: a list of documents is classified, and  *)
(* classified again after one more document is put at its end.             *)
(***************************************************************************)
ClsPool ==
    { Txt(0, <<>>, 0), Txt(0, <<"The">>, 0),
      Txt(0, <<"Algorithm", "API">>, 0), Txt(0, <<"javascript">>, 0),
      Txt(0, <<"Algorithm", "API", "database", "class">>, 0),
      Txt(0, <<"story", "plot">>, 0), Txt(0, <<"Chapter", "History">>, 0),
      Txt(0, <<"data">>, 0), Txt(0, <<"structure">>, 0) }

InitCls ==
    /\ cls_docs \in SeqsUpTo(ClsPool, MaxClsDocs)
    /\ cls_label = "none"
    /\ cls_pc = "input"
    /\ IdleSum
    /\ IdlePdf
    /\ IdleAudio
    /\ IdleExt

Classify ==
    /\ cls_pc = "input"
    /\ cls_label' = detect_content_type(cls_docs)
    /\ cls_pc' = "classified"
    /\ UNCHANGED << cls_docs, sumVars, fileVars, extVars >>

ClassifyLonger ==
    /\ cls_pc = "classified"
    /\ Len(cls_docs) < MaxClsDocs
    /\ \E d \in ClsPool : cls_docs' = Append(cls_docs, d)
    /\ cls_label' = detect_content_type(cls_docs')
    /\ UNCHANGED << cls_pc, sumVars, fileVars, extVars >>

NextCls == Classify \/ ClassifyLonger

SpecClassify == InitCls /\ [][NextCls]_vars

(***************************************************************************)
(* chunk_documents on its own, for every content type, every list of       *)
(* documents and every outcome of the splitter.                            *)
(***************************************************************************)
ContentTypes == {"technical", "narrative", "general"}

InitChunk ==
    /\ chk_docs \in SeqsUpTo(SumPool, MaxDocs)
    /\ chk_type \in ContentTypes
    /\ chk_split \in SplitOutcomes(chk_type)
    /\ chk_out = <<>>
    /\ chk_pc = "call"
    /\ IdleSum
    /\ IdleCls
    /\ IdlePdf
    /\ IdleAudio
    /\ IdleTok
    /\ IdleSes
    /\ IdleSan

\* Lines 44-73: one call of chunk_documents.
ChunkCall ==
    /\ chk_pc = "call"
    /\ chk_out' = chunk_documents(chk_docs, chk_type, chk_split)
    /\ chk_pc' = "returned"
    /\ UNCHANGED << chk_docs, chk_type, chk_split >>
    /\ UNCHANGED << sumVars, clsVars, fileVars, tokVars, sesVars, sanVars >>

NextChunk == ChunkCall

SpecChunk == InitChunk /\ [][NextChunk]_vars

(***************************************************************************)
(* estimate_tokens on its own: a text is estimated, then characters are    *)
(* appended to it (a whitespace character, a word after whitespace, or a   *)
(* letter at the end of the last word) and the longer text is estimated.   *)
(***************************************************************************)
TokInputs == { EmptyText, Txt(2, <<>>, 0), Txt(0, <<"x^49">>, 0) }

\* Words a text is extended with.
TokWords == { "The", "x^49" }

\* A word with one more letter at its end.
OneMoreLetter(w) == IF w = "x^49" THEN "x^50" ELSE IF w = "x^50" THEN "x^51" ELSE w

\* text + " "
AppendSpace(t) ==
    [t EXCEPT !.gaps[Len(t.gaps)] = @ + 1]

\* text + w, for a text that is empty or ends with whitespace
AppendWord(t, w) ==
    [words |-> Append(t.words, w), gaps |-> Append(t.gaps, 0)]

\* text + "x", for a text that ends with a word of the letter x
GrowWord(t) ==
    [t EXCEPT !.words[Len(t.words)] = OneMoreLetter(@)]

\* The texts text + s a step makes from text.
Extensions(t) ==
    { AppendSpace(t) }
    \cup (IF t.words = <<>> \/ Last(t.gaps) > 0
          THEN { AppendWord(t, w) : w \in TokWords } ELSE {})
    \cup (IF t.words # <<>> /\ Last(t.gaps) = 0 /\ OneMoreLetter(Last(t.words)) # Last(t.words)
          THEN { GrowWord(t) } ELSE {})

InitTokens ==
    /\ tok_text \in TokInputs
    /\ tok_est = 0
    /\ tok_prefix_max = 0
    /\ tok_steps = 0
    /\ tok_pc = "input"
    /\ IdleSum
    /\ IdleCls
    /\ IdlePdf
    /\ IdleAudio
    /\ IdleChk
    /\ IdleSes
    /\ IdleSan

\* Lines 22-38: estimate_tokens(text).
Estimate ==
    /\ tok_pc = "input"
    /\ tok_est' = estimate_tokens(tok_text)
    /\ tok_pc' = "estimated"
    /\ UNCHANGED << tok_text, tok_prefix_max, tok_steps >>
    /\ UNCHANGED << sumVars, clsVars, fileVars, chkVars, sesVars, sanVars >>

\* Lines 22-38 again, on a text the last one is a prefix of.
EstimateExtension ==
    /\ tok_pc = "estimated"
    /\ tok_steps < MaxTokSteps
    /\ \E t \in Extensions(tok_text) :
          /\ tok_text' = t
          /\ tok_est' = estimate_tokens(t)
    /\ tok_prefix_max' = IF tok_est > tok_prefix_max THEN tok_est ELSE tok_prefix_max
    /\ tok_steps' = tok_steps + 1
    /\ UNCHANGED tok_pc
    /\ UNCHANGED << sumVars, clsVars, fileVars, chkVars, sesVars, sanVars >>

NextTokens == Estimate \/ EstimateExtension

SpecTokens == InitTokens /\ [][NextTokens]_vars

(***************************************************************************)
(* app.py, lines 166-371: the script runs of one session.  An event is the *)
(* page load, an edit of the API key, or a click on a button the last run  *)
(* rendered; a click on a mode button or on the reset button ends with     *)
(* st.rerun(), which runs the script once more with no button pressed.     *)
(***************************************************************************)
KeyValues == { "", "gsk_1", "gsk_2" }

Modes == { "youtube", "web", "pdf", "quiz" }

\* not groq_api_key (line 186): st.stop() ends the run
StopsRun(key) == key = ""

\* A faulty NeedsHandle: every run that has a key makes a handle.
NeedsHandle_always(llm) == TRUE

\* 'llm' not in st.session_state or st.session_state.llm is None (line 191)
NeedsHandle(llm) == llm = NoHandle

\* One event: the script run it starts, with key in the text input and
\* pressed the button that was clicked ("none", a mode, "process",
\* "reset"), and the rerun that follows a mode or reset click.
ScriptRun(key, pressed) ==
    /\ ses_runs < MaxRuns
    /\ ses_key' = key
    /\ ses_runs' = ses_runs + (IF ~StopsRun(key) /\ pressed \in Modes \cup {"reset"}
                               THEN 2 ELSE 1)
    /\ IF StopsRun(key)
       THEN /\ ses_last' = [key |-> key, stopped |-> TRUE, created |-> FALSE,
                            processed |-> "none", used |-> NoHandle]
            /\ UNCHANGED << ses_llm, ses_mode, ses_created, ses_first_key >>
       ELSE /\ ses_llm' = IF NeedsHandle(ses_llm) THEN NewHandle(key) ELSE ses_llm
            /\ ses_created' = ses_created + (IF NeedsHandle(ses_llm) THEN 1 ELSE 0)
            /\ ses_first_key' = IF ses_first_key = "" THEN key ELSE ses_first_key
            /\ ses_mode' = IF pressed \in Modes THEN pressed
                           ELSE IF pressed = "reset" THEN "none"
                           ELSE ses_mode
            /\ ses_last' = [key |-> key, stopped |-> FALSE,
                            created |-> NeedsHandle(ses_llm),
                            processed |-> IF pressed = "process" THEN ses_mode
                                          ELSE "none",
                            used |-> IF pressed = "process" THEN ses_llm'
                                     ELSE NoHandle]
    /\ UNCHANGED << sumVars, clsVars, fileVars, chkVars, tokVars, sanVars >>

InitSession ==
    /\ IdleSes
    /\ IdleSum
    /\ IdleCls
    /\ IdlePdf
    /\ IdleAudio
    /\ IdleChk
    /\ IdleTok
    /\ IdleSan

\* The page load (the text input is empty) or an edit of the key (line 176).
KeyRun ==
    \E k \in KeyValues :
        /\ ses_runs = 0 => k = ""
        /\ ScriptRun(k, "none")

\* A click on one of the four mode buttons (lines 210-248), which the last
\* run rendered.
ModeRun ==
    /\ ses_runs > 0
    /\ ~ses_last.stopped
    /\ \E m \in Modes : ScriptRun(ses_key, m)

\* A click on the button of the current mode's section (lines 251-365):
\* the mode is processed with llm.
ProcessRun ==
    /\ ses_runs > 0
    /\ ~ses_last.stopped
    /\ ses_mode # "none"
    /\ ScriptRun(ses_key, "process")

\* A click on "Select Another Tool" (lines 367-371).
ResetRun ==
    /\ ses_runs > 0
    /\ ~ses_last.stopped
    /\ ses_mode # "none"
    /\ ScriptRun(ses_key, "reset")

NextSession == KeyRun \/ ModeRun \/ ProcessRun \/ ResetRun

SpecSession == InitSession /\ [][NextSession]_vars

(***************************************************************************)
(* generate_audio, lines 350-360: the text check, the cleaning and the     *)
(* truncation of the text that goes to gTTS.                               *)
(***************************************************************************)
\* "... Summary continues in text format." (line 360), as one element
Notice ==
    << [c |-> "... Summary continues in text format.", n |-> NoticeLen] >>

\* s[:k]
Slice(s, k) ==
    LET Whole == { i \in 0..Len(s) : CharsLen(SubSeq(s, 1, i)) <= k }
        i == CHOOSE m \in Whole : \A j \in Whole : j <= m
        rest == k - CharsLen(SubSeq(s, 1, i))
    IN  IF i < Len(s) /\ rest > 0
        THEN Append(SubSeq(s, 1, i), [s[i + 1] EXCEPT !.n = rest])
        ELSE SubSeq(s, 1, i)

\* not summary_text or not summary_text.strip() (line 352)
BlankChars(s) == CharsStrip(s) = <<>>

\* A faulty narration_text: the notice is counted in the 4800 characters.
narration_text_notice_counted(cleaned) ==
    IF CharsLen(cleaned) > NarrationCeiling
    THEN Slice(cleaned, NarrationKeep - NoticeLen) \o Notice
    ELSE cleaned

\* Lines 358-360: cleaned_text after the length test.
narration_text(cleaned) ==
    IF CharsLen(cleaned) > NarrationCeiling
    THEN Slice(cleaned, NarrationKeep) \o Notice
    ELSE cleaned

\* The characters of the short texts: a digit, a full stop, a space and
\* the two letters of the abbreviation AI.
SanAlphabet == { "1", ".", " ", "A", "I" }

ShortTexts == { Str(cs) : cs \in SeqsUpTo(SanAlphabet, MaxSanLen) }

\* "**A** <backtick>I<backtick> [A](I)", "# A\n- I\n1. A" and "JS\n\nUK"
MarkupSamples ==
    { Str(<< "*", "*", "A", "*", "*", " ", "backtick", "I", "backtick", " ",
             "[", "A", "]", "(", "I", ")" >>),
      Str(<< "#", " ", "A", "\n", "-", " ", "I", "\n", "1", ".", " ", "A" >>),
      Str(<< "J", "S", "\n", "\n", "U", "K" >>) }

\* Texts around the two lengths of lines 358-360: 4801, 5000 and 5001
\* letters, 5000 letters in bold, and 4990 letters after "ML ".
LongSamples ==
    { << Letters(4801) >>, << Letters(5000) >>, << Letters(5001) >>,
      Str(<< "*", "*" >>) \o << Letters(5000) >> \o Str(<< "*", "*" >>),
      Str(<< "M", "L", " " >>) \o << Letters(4990) >> }

\* "1. 2. xxxx." and "1. AI."
PlainSamples ==
    { Str(<< "1", ".", " ", "2", ".", " " >>) \o << Letters(4), Ch(".") >>,
      Str(<< "1", ".", " ", "A", "I", "." >>) }

SanInputs == ShortTexts \cup MarkupSamples \cup PlainSamples \cup LongSamples

InitSanitize ==
    /\ san_text \in SanInputs
    /\ san_clean = <<>>
    /\ san_twice = <<>>
    /\ san_handed = <<>>
    /\ san_pc = "input"
    /\ IdleSum
    /\ IdleCls
    /\ IdlePdf
    /\ IdleAudio
    /\ IdleChk
    /\ IdleTok
    /\ IdleSes

\* Lines 301-345: clean_text_for_audio(text).
Sanitize ==
    /\ san_pc = "input"
    /\ san_clean' = clean_text_for_audio(san_text)
    /\ san_pc' = "cleaned"
    /\ UNCHANGED << san_text, san_twice, san_handed >>
    /\ UNCHANGED << sumVars, clsVars, fileVars, chkVars, tokVars, sesVars >>

\* Lines 301-345 again, on the text the first call returned.
SanitizeAgain ==
    /\ san_pc = "cleaned"
    /\ san_twice' = clean_text_for_audio(san_clean)
    /\ san_pc' = "twice"
    /\ UNCHANGED << san_text, san_clean, san_handed >>
    /\ UNCHANGED << sumVars, clsVars, fileVars, chkVars, tokVars, sesVars >>

\* generate_audio(summary_text), lines 350-360: a blank text raises the
\* ValueError of line 353, any other is cleaned and cut for gTTS.
PrepareNarration ==
    /\ san_pc = "input"
    /\ IF BlankChars(san_text)
       THEN /\ san_pc' = "rejected"
            /\ UNCHANGED << san_clean, san_handed >>
       ELSE /\ san_clean' = clean_text_for_audio(san_text)
            /\ san_handed' = narration_text(san_clean')
            /\ san_pc' = "handed"
    /\ UNCHANGED << san_text, san_twice >>
    /\ UNCHANGED << sumVars, clsVars, fileVars, chkVars, tokVars, sesVars >>

NextSanitize == Sanitize \/ SanitizeAgain \/ PrepareNarration

SpecSanitize == InitSanitize /\ [][NextSanitize]_vars

(***************************************************************************)
(* The PDF mode of app.py (lines 331-365): every upload is written to the  *)
(* working directory under its own name, loaded, and removed.  What the    *)
(* loader does with an upload is the upload's kind: "good" gives one       *)
(* document, "empty" none, and loading a "corrupt" one raises.             *)
(***************************************************************************)
UploadNames == {"a.pdf", "b.pdf"}

UploadKinds == {"good", "empty", "corrupt"}

UploadPool == [name : UploadNames, kind : UploadKinds]

InitPdf ==
    /\ uploaded_files \in SeqsUpTo(UploadPool, MaxFiles)
    /\ pdf_pc = "click"
    /\ pdf_i = 0
    /\ pdf_disk = {}
    /\ all_docs = 0
    /\ pdf_outcome = "none"

\* Lines 331-336 and 364-365: the button, with or without uploads.
PdfClick ==
    /\ pdf_pc = "click"
    /\ IF uploaded_files = <<>>
       THEN pdf_outcome' = "warning" /\ pdf_pc' = "done" /\ UNCHANGED pdf_i
       ELSE pdf_i' = 1 /\ pdf_pc' = "write" /\ UNCHANGED pdf_outcome
    /\ UNCHANGED << uploaded_files, pdf_disk, all_docs >>
    /\ UNCHANGED << summary_text, audio_pc, audio_disk, audio_error, audio_outcome >>
    /\ UNCHANGED << sumVars, clsVars, extVars >>

\* Lines 337-339: the upload is written to cwd/<name>.
PdfWrite ==
    /\ pdf_pc = "write"
    /\ pdf_disk' = pdf_disk \cup {uploaded_files[pdf_i].name}
    /\ pdf_pc' = "load"
    /\ UNCHANGED << uploaded_files, pdf_i, all_docs, pdf_outcome >>
    /\ UNCHANGED << summary_text, audio_pc, audio_disk, audio_error, audio_outcome >>
    /\ UNCHANGED << sumVars, clsVars, extVars >>

\* Lines 341-342: PyPDFLoader(path).load(); an exception leaves the loop for
\* the except block of line 362.
PdfLoad ==
    /\ pdf_pc = "load"
    /\ IF uploaded_files[pdf_i].kind = "corrupt"
       THEN /\ pdf_outcome' = "error"
            /\ pdf_pc' = "done"
            /\ UNCHANGED all_docs
       ELSE /\ all_docs' = all_docs + (IF uploaded_files[pdf_i].kind = "good" THEN 1 ELSE 0)
            /\ pdf_pc' = "remove"
            /\ UNCHANGED pdf_outcome
    /\ UNCHANGED << uploaded_files, pdf_i, pdf_disk >>
    /\ UNCHANGED << summary_text, audio_pc, audio_disk, audio_error, audio_outcome >>
    /\ UNCHANGED << sumVars, clsVars, extVars >>

\* Line 343: os.remove(temp_file_path), then the next upload.
PdfRemove ==
    /\ pdf_pc = "remove"
    /\ pdf_disk' = pdf_disk \ {uploaded_files[pdf_i].name}
    /\ IF pdf_i < Len(uploaded_files)
       THEN pdf_i' = pdf_i + 1 /\ pdf_pc' = "write"
       ELSE pdf_pc' = "summarize" /\ UNCHANGED pdf_i
    /\ UNCHANGED << uploaded_files, all_docs, pdf_outcome >>
    /\ UNCHANGED << summary_text, audio_pc, audio_disk, audio_error, audio_outcome >>
    /\ UNCHANGED << sumVars, clsVars, extVars >>

\* Lines 345-363: no text, or the split and the summary, which may raise.
PdfSummarize ==
    /\ pdf_pc = "summarize"
    /\ IF all_docs = 0
       THEN pdf_outcome' = "no_text"
       ELSE pdf_outcome' \in {"summary", "error"}
    /\ pdf_pc' = "done"
    /\ UNCHANGED << uploaded_files, pdf_i, pdf_disk, all_docs >>
    /\ UNCHANGED << summary_text, audio_pc, audio_disk, audio_error, audio_outcome >>
    /\ UNCHANGED << sumVars, clsVars, extVars >>

(***************************************************************************)
(* generate_audio (generalUtils.py, lines 347-404).  gTTS is a library:    *)
(* whether its constructor or its save raises, and whether the file it     *)
(* writes is empty, are inputs of the model.                               *)
(***************************************************************************)
InitAudio ==
    /\ summary_text \in {"empty", "blank", "text"}
    /\ audio_pc = "start"
    /\ audio_disk = {}
    /\ audio_error = "none"
    /\ audio_outcome = "none"

pdfUnchanged ==
    UNCHANGED << uploaded_files, pdf_pc, pdf_i, pdf_disk, all_docs, pdf_outcome >>

\* Lines 352-363: the check of the text, the cleaning, the truncation.
AudioStart ==
    /\ audio_pc = "start"
    /\ IF summary_text \in {"empty", "blank"}
       THEN /\ audio_error' = "No text provided for audio generation"
            /\ audio_pc' = "fallback"
       ELSE /\ audio_pc' = "create"
            /\ UNCHANGED audio_error
    /\ UNCHANGED << summary_text, audio_disk, audio_outcome >>
    /\ pdfUnchanged
    /\ UNCHANGED << sumVars, clsVars, extVars >>

\* Line 365: tempfile.NamedTemporaryFile(delete=False, suffix='.mp3').
AudioCreate ==
    /\ audio_pc = "create"
    /\ audio_disk' = audio_disk \cup {"tmp1.mp3"}
    /\ audio_pc' = "save"
    /\ UNCHANGED << summary_text, audio_error, audio_outcome >>
    /\ pdfUnchanged
    /\ UNCHANGED << sumVars, clsVars, extVars >>

\* Lines 366-367: gTTS(...) and tts.save(...); when one raises the with
\* block closes the file and the except block of line 385 takes over.
AudioSave ==
    /\ audio_pc = "save"
    /\ \E raises \in BOOLEAN :
          IF raises
          THEN audio_error' = "gTTS failed" /\ audio_pc' = "fallback"
          ELSE audio_pc' = "read" /\ UNCHANGED audio_error
    /\ UNCHANGED << summary_text, audio_disk, audio_outcome >>
    /\ pdfUnchanged
    /\ UNCHANGED << sumVars, clsVars, extVars >>

\* Lines 370-383: the file is read and unlinked; empty audio raises.
AudioRead ==
    /\ audio_pc = "read"
    /\ audio_disk' = audio_disk \ {"tmp1.mp3"}
    /\ \E empty_audio \in BOOLEAN :
          IF empty_audio
          THEN /\ audio_error' = "Failed to generate audio data"
               /\ audio_pc' = "fallback"
               /\ UNCHANGED audio_outcome
          ELSE /\ audio_outcome' = "audio"
               /\ audio_pc' = "done"
               /\ UNCHANGED audio_error
    /\ UNCHANGED summary_text
    /\ pdfUnchanged
    /\ UNCHANGED << sumVars, clsVars, extVars >>

\* Lines 388-391 and 402-404: gTTS(text=fallback_text, lang=lang).
AudioFallback ==
    /\ audio_pc = "fallback"
    /\ \E raises \in BOOLEAN :
          IF raises
          THEN audio_outcome' = "RuntimeError" /\ audio_pc' = "done"
          ELSE audio_pc' = "fb_create" /\ UNCHANGED audio_outcome
    /\ UNCHANGED << summary_text, audio_disk, audio_error >>
    /\ pdfUnchanged
    /\ UNCHANGED << sumVars, clsVars, extVars >>

\* Line 393: the second temporary file.
AudioFallbackCreate ==
    /\ audio_pc = "fb_create"
    /\ audio_disk' = audio_disk \cup {"tmp2.mp3"}
    /\ audio_pc' = "fb_save"
    /\ UNCHANGED << summary_text, audio_error, audio_outcome >>
    /\ pdfUnchanged
    /\ UNCHANGED << sumVars, clsVars, extVars >>

\* Lines 394 and 402-404: tts.save(...) of the fallback text.
AudioFallbackSave ==
    /\ audio_pc = "fb_save"
    /\ \E raises \in BOOLEAN :
          IF raises
          THEN audio_outcome' = "RuntimeError" /\ audio_pc' = "done"
          ELSE audio_pc' = "fb_read" /\ UNCHANGED audio_outcome
    /\ UNCHANGED << summary_text, audio_disk, audio_error >>
    /\ pdfUnchanged
    /\ UNCHANGED << sumVars, clsVars, extVars >>

\* Lines 395-400: the fallback audio is read, its file unlinked.
AudioFallbackRead ==
    /\ audio_pc = "fb_read"
    /\ audio_disk' = audio_disk \ {"tmp2.mp3"}
    /\ audio_outcome' = "fallback_audio"
    /\ audio_pc' = "done"
    /\ UNCHANGED << summary_text, audio_error >>
    /\ pdfUnchanged
    /\ UNCHANGED << sumVars, clsVars, extVars >>

InitFiles ==
    /\ \/ InitPdf /\ IdleAudio
       \/ IdlePdf /\ InitAudio
    /\ IdleSum
    /\ IdleCls
    /\ IdleExt

NextFiles ==
    \/ PdfClick
    \/ PdfWrite
    \/ PdfLoad
    \/ PdfRemove
    \/ PdfSummarize
    \/ AudioStart
    \/ AudioCreate
    \/ AudioSave
    \/ AudioRead
    \/ AudioFallback
    \/ AudioFallbackCreate
    \/ AudioFallbackSave
    \/ AudioFallbackRead

SpecFiles == InitFiles /\ [][NextFiles]_vars

(***************************************************************************)
(* Properties of summarize_chain.                                          *)
(***************************************************************************)
\* The call has begun at least one attempt of the retry loop.
AttemptRan == strategy # "none" \/ failures # <<>>

SomeNonBlankDoc == \E i \in 1..Len(docs) : StrLen(Strip(docs[i])) > 0

LongEnough(text) == StrLen(Strip(text)) >= MinSummaryLen

RetryExhausted ==
    /\ outcome.kind = "RuntimeError"
    /\ outcome.attempts = max_retries
    /\ Len(failures) = max_retries

\* C1 as stated: for every non-empty document list the call ends either by
\* returning a string of length at least 50 or with the retry-exhausted
\* error after exactly max_retries attempts.
C1_Claim ==
    (pc = "done" /\ docs # <<>>) =>
        \/ outcome.kind = "return" /\ StrLen(outcome.value) >= MinSummaryLen
        \/ RetryExhausted

\* C1 amended: for every document list holding at least one non-blank
\* document the call ends in exactly one of the two ways: it returns a
\* string of length at least 50, or it raises the retry-exhausted error
\* after exactly max_retries failed attempts.
C1_Amended ==
    (pc = "done" /\ SomeNonBlankDoc) =>
        /\ outcome.kind \in {"return", "RuntimeError"}
        /\ outcome.kind = "return" => StrLen(outcome.value) >= MinSummaryLen
        /\ outcome.kind = "RuntimeError" => RetryExhausted

C1_Witness ==
    /\ pc = "done"
    /\ SomeNonBlankDoc
    /\ RetryExhausted
    /\ max_retries >= 2

\* C2: an empty list, or a list of documents all blank after trimming, ends
\* the call at once with a ValueError: no LLM call is issued, no attempt is
\* run, and the error is not turned into the RuntimeError of the retry loop.
C2_InputErrorImmediate ==
    ~SomeNonBlankDoc =>
        /\ pc \in {"start", "done"}
        /\ total_calls = 0
        /\ call.kind = "none"
        /\ ~AttemptRan
        /\ failures = <<>>
        /\ pc = "done" => outcome.kind = "ValueError"
        /\ pc = "start" => outcome.kind = "none"

C2_Witness ==
    /\ pc = "done"
    /\ docs # <<>>
    /\ ~SomeNonBlankDoc
    /\ \E i \in 1..Len(docs) : StrLen(docs[i]) > 0
    /\ outcome.kind = "ValueError"

C4_ExhaustedWrapsLast ==
    /\ outcome.kind = "RuntimeError" =>
          /\ outcome.attempts = max_retries
          /\ Len(failures) = max_retries
          /\ outcome.msg = Last(failures)
          /\ pc = "done"
    /\ (Len(failures) >= 1 /\ Len(failures) >= max_retries) =>
          /\ outcome.kind = "RuntimeError"
          /\ pc = "done"
    /\ Len(failures) <= (IF max_retries > 0 THEN max_retries ELSE 0)

C4_Witness ==
    /\ outcome.kind = "RuntimeError"
    /\ Len(failures) >= 2
    /\ failures[1] # Last(failures)
    /\ outcome.msg = "Generated summary is too short"

\* C5 as stated: on non-blank documents, for every max_retries, a normal
\* return hands back the trimmed text of an LLM completion of this call
\* that passed validation; anything else is a raised error.
C5_Claim ==
    (pc = "done" /\ SomeNonBlankDoc) =>
        \/ /\ outcome.kind = "return"
           /\ AttemptRan
           /\ total_calls >= 1
           /\ outcome.value = Strip(result)
           /\ LongEnough(result)
        \/ outcome.kind = "RuntimeError"

C7_StrategyFromEstimate ==
    LET estimate == estimate_tokens(JoinSpace(SelectSeq(docs, NonBlank)))
    IN  strategy # "none" =>
          /\ strategy = (IF estimate < MAX_TOKENS THEN "stuff" ELSE "map_reduce")
          /\ strategy = "stuff" =>
                /\ attempt_calls = [stuff |-> 1, map |-> 0, combine |-> 0]
                /\ chunker_runs = 0
                /\ call.kind \in {"none", "stuff"}
                /\ chain_docs = SelectSeq(docs, NonBlank)
          /\ strategy = "map_reduce" =>
                /\ attempt_calls.stuff = 0
                /\ chunker_runs = 1
                /\ call.kind \in {"none", "map", "combine"}

C7_Witness ==
    /\ strategy = "map_reduce"
    /\ total_tokens = MAX_TOKENS
    /\ attempt >= 1
    /\ pc = "map"

LabelRule(t, n) ==
    IF t > n /\ t > TechnicalThreshold THEN "technical"
    ELSE IF n > t /\ n > NarrativeThreshold THEN "narrative"
    ELSE "general"

\* C10: the label is the rule applied to the scores of the lower-cased
\* join of the first three documents (general for an empty list and for
\* equal scores), and putting a document after the third never changes it.
C10_LabelFromFirstThree ==
    /\ [](cls_pc = "classified" =>
            LET sample == LowerText(JoinSpace(Take(cls_docs, SampleDocs)))
                t == Score(technical_indicators, sample)
                n == Score(narrative_indicators, sample)
            IN  /\ cls_label = LabelRule(t, n)
                /\ cls_docs = <<>> => cls_label = "general"
                /\ t = n => cls_label = "general")
    /\ [][(cls_pc = "classified" /\ Len(cls_docs) >= SampleDocs)
            => cls_label' = cls_label]_vars

C10_Witness ==
    /\ cls_pc = "classified"
    /\ Len(cls_docs) > SampleDocs
    /\ cls_label = "narrative"
    /\ detect_content_type(SubSeq(cls_docs, 2, Len(cls_docs))) = "technical"

\* C14 as stated: the two counts are numbers of occurrences, so the label is
\* the rule applied to the occurrences of the indicators in the sample.
C14_Claim ==
    cls_pc = "classified" =>
        LET sample == SampleText(cls_docs)
        IN  cls_label = LabelRule(Score_occurrences(technical_indicators, sample),
                                  Score_occurrences(narrative_indicators, sample))

\* C14, amended: each count is the number of distinct indicators of the set
\* that occur in the sample at least once, so an indicator that occurs n
\* times contributes 1, and the label is the rule applied to these counts.
C14_Amended ==
    cls_pc = "classified" =>
        LET sample == SampleText(cls_docs)
            Distinct(indicators) ==
                Cardinality({ indicators[i] : i \in
                    { j \in 1..Len(indicators) :
                        OccurrenceCount(indicators[j], sample) >= 1 } })
            t == Distinct(technical_indicators)
            n == Distinct(narrative_indicators)
        IN  /\ technical_score(cls_docs) = t
            /\ narrative_score(cls_docs) = n
            /\ cls_label = LabelRule(t, n)

\* 'algorithm' occurs three times in the sample and 'api' three times, no
\* narrative indicator occurs: the technical count is 2 and the label is
\* general.
C14_Witness ==
    /\ cls_pc = "classified"
    /\ OccurrenceCount("algorithm", SampleText(cls_docs)) = 3
    /\ Score_occurrences(technical_indicators, SampleText(cls_docs)) = 6
    /\ Score_occurrences(narrative_indicators, SampleText(cls_docs)) = 0
    /\ technical_score(cls_docs) = 2
    /\ cls_label = "general"

(***************************************************************************)
(* Properties of the temporary files.                                      *)
(***************************************************************************)
\* C9 as stated: once the PDF mode or generate_audio has ended, by success
\* or by an exception, no temporary file it wrote exists any more.
C9_Claim ==
    /\ pdf_pc = "done" => pdf_disk = {}
    /\ audio_pc = "done" => audio_disk = {}

(***************************************************************************)
(* The LLM calls of one call of summarize_chain.                           *)
(***************************************************************************)
\* LLM calls issued and not yet returned: the map calls issued less those
\* that returned, and the stuff or combine call the chain waits for.
InFlight ==
    (attempt_calls.map - map_done)
    + (IF call.kind \in {"stuff", "combine"} THEN 1 ELSE 0)

\* C13: within one call of summarize at most one LLM call is in flight; the
\* combine call of a map_reduce attempt is issued only when every map
\* call of that attempt was issued and has returned; and while attempt
\* number attempt + 1 runs, each of the attempt attempts before it has
\* failed.
C13_CallsAreSequential ==
    /\ InFlight \in {0, 1}
    /\ InFlight = 1 <=> pc = "llm"
    /\ attempt_calls.combine >= 1 =>
          /\ attempt_calls.combine = 1
          /\ map_done = Len(chain_docs)
          /\ attempt_calls.map = Len(chain_docs)
    /\ strategy # "none" => Len(failures) = attempt
    /\ pc \in {"loop", "map", "llm"} => Len(failures) = attempt

\* The combine call of a second attempt is in flight after two map calls.
C13_Witness ==
    /\ call.kind = "combine"
    /\ attempt = 1
    /\ failures # <<>>
    /\ Len(chain_docs) = 2
    /\ map_done = 2

(***************************************************************************)
(* The chunker.                                                            *)
(***************************************************************************)
\* C16: when split_documents returned, every document of the list
\* chunk_documents returns has more than 50 characters once trimmed,
\* whatever the content type and the documents; the list may be empty.
C16_NoShortChunk ==
    (chk_pc = "returned" /\ ~chk_split.throws) =>
        /\ \A i \in 1..Len(chk_out) : StrLen(Strip(chk_out[i])) > 50
        /\ Len(chk_out) <= Len(chk_split.out)

\* The splitter returned a chunk of 50 characters and one of 51: the
\* first is dropped, the second kept.
C16_Witness ==
    /\ chk_pc = "returned"
    /\ ~chk_split.throws
    /\ Len(chk_split.out) = 2
    /\ Len(chk_out) = 1
    /\ \E i \in 1..2 : StrLen(Strip(chk_split.out[i])) = 50

\* C17: when split_documents raises, chunk_documents returns the documents
\* it was given, unfiltered and in their order, and the map_reduce attempt
\* of summarize_chain goes on with them: no failure is recorded for it.
C17_SplitFailureFallsBack ==
    (strategy = "map_reduce" /\ split_raised) =>
        /\ chunked_docs = clean_docs
        /\ chain_docs = clean_docs
        /\ Len(failures) = attempt
        /\ pc \in {"map", "llm", "done"}
        /\ pc = "done" => outcome.kind = "return"

\* The splitter raised in the first attempt, the documents hold one the
\* filter of line 66 would have dropped, and that attempt returned.
C17_Witness ==
    /\ strategy = "map_reduce"
    /\ split_raised
    /\ \E i \in 1..Len(clean_docs) : StrLen(Strip(clean_docs[i])) <= 50
    /\ attempt = 0
    /\ outcome.kind = "return"
    /\ attempt_calls = [stuff |-> 0, map |-> Len(clean_docs), combine |-> 1]

(***************************************************************************)
(* Properties of estimate_tokens.                                          *)
(***************************************************************************)
\* C15: estimate_tokens returns 0 for the empty text and otherwise the
\* non-negative integer floor((words * 1.3 + chars / 3.5) / 2), that is
\* floor((91 * words + 20 * chars) / 140); and the value for a text is
\* never below the value for one of its prefixes.
C15_EstimateMonotonic ==
    tok_pc = "estimated" =>
        LET words == Len(tok_text.words)
            chars == StrLen(tok_text)
        IN  /\ tok_est \in Nat
            /\ chars = 0 => tok_est = 0
            /\ 140 * tok_est <= 91 * words + 20 * chars
            /\ 91 * words + 20 * chars < 140 * (tok_est + 1)
            /\ tok_est >= tok_prefix_max

\* A text of two words whose estimate is above that of a prefix, itself
\* above 0.
C15_Witness ==
    /\ tok_pc = "estimated"
    /\ Len(tok_text.words) = 2
    /\ tok_prefix_max > 0
    /\ tok_est > tok_prefix_max

(***************************************************************************)
(* Properties of the session of app.py.                                    *)
(***************************************************************************)
\* C18: in one session at most one LLM handle is constructed; there is none
\* until a run has a non-empty API key, and from that run on the handle in
\* the session state is the one made with that run's key, whatever key is
\* entered later; a run with an empty key makes no handle and processes
\* no mode, and every processing uses the handle of the session state.
C18_HandleCreatedOnce ==
    /\ ses_created <= 1
    /\ ses_created = 1 <=> ses_first_key # ""
    /\ ses_llm = (IF ses_first_key = "" THEN NoHandle ELSE NewHandle(ses_first_key))
    /\ ses_last.key = "" => (~ses_last.created /\ ses_last.processed = "none")
    /\ ses_last.processed # "none" =>
          (ses_last.used = ses_llm /\ ses_llm # NoHandle)

\* A mode is processed in a run whose key is not the one the handle was
\* made with.
C18_Witness ==
    /\ ses_last.processed # "none"
    /\ ses_key # ses_first_key
    /\ ses_last.used = NewHandle(ses_first_key)
    /\ ses_created = 1

(***************************************************************************)
(* Properties of the text that goes to narration.                          *)
(***************************************************************************)
\* C11 as stated: for an input of more than 5000 characters the text handed
\* to gTTS, notice included, has at most 4800 characters.
C11_Claim ==
    (san_pc = "handed" /\ CharsLen(san_text) > 5000) =>
        CharsLen(san_handed) <= 4800

\* C11, amended: when the cleaned text has more than 5000 characters, the
\* text handed to gTTS is its first 4800 characters followed by the notice
\* of 37 characters, 4837 in all; a cleaned text of at most 5000
\* characters is handed over as it is; so gTTS never gets more than 5000.
C11_Amended ==
    san_pc = "handed" =>
        /\ CharsLen(san_clean) > 5000 =>
              /\ san_handed = Slice(san_clean, 4800) \o Notice
              /\ CharsLen(Slice(san_clean, 4800)) = 4800
              /\ CharsLen(san_handed) = 4837
        /\ CharsLen(san_clean) <= 5000 => san_handed = san_clean
        /\ CharsLen(san_handed) <= 5000

\* An input of at most 5000 characters whose cleaned text is longer than
\* 5000 (an abbreviation was spelled out) and was cut.
C11_Witness ==
    /\ san_pc = "handed"
    /\ CharsLen(san_text) <= 5000
    /\ CharsLen(san_clean) > 5000
    /\ CharsLen(san_handed) = 4837
    /\ Last(san_handed).n = NoticeLen

\* A clean plain text: no markup character, bracket or line break in it,
\* single spaces between its words, a full stop, ! or ? at its end.
IsCleanPlain(x) ==
    /\ x # <<>>
    /\ \A i \in 1..Len(x) :
          x[i].c \notin MarkupChars \cup { "[", "]", "(", ")", "\n", "\t" }
    /\ x[1].c # " "
    /\ \A i \in 1..(Len(x) - 1) : ~(x[i].c = " " /\ x[i + 1].c = " ")
    /\ Last(x).c \in { ".", "!", "?" }

\* x begins with two number-dot prefixes: digits and a full stop, twice,
\* with or without a space between them.
TwoNumberPrefixes(x) ==
    LET d == Run(x, 1, "digit")
        w == Run(x, d + 2, "space")
        d2 == Run(x, d + w + 2, "digit")
    IN  /\ d >= 1
        /\ Len(x) >= d + 1
        /\ x[d + 1].c = "."
        /\ d2 >= 1
        /\ Len(x) >= d + w + d2 + 2
        /\ x[d + w + d2 + 2].c = "."

\* C12 as stated: for every clean plain text x, cleaning the cleaned text
\* again changes nothing.
C12_Claim ==
    (san_pc = "twice" /\ IsCleanPlain(san_text)) => san_twice = san_clean

\* C12, amended: cleaning is idempotent on the clean plain texts that do
\* not begin with two number-dot prefixes; on those that do, the first
\* cleaning removes one prefix and the second removes the next, so the two
\* results differ.
C12_Amended ==
    (san_pc = "twice" /\ IsCleanPlain(san_text)) =>
        (san_twice = san_clean <=> ~TwoNumberPrefixes(san_text))

\* A clean plain text with one number-dot prefix and the abbreviation AI:
\* the prefix is removed, AI is spelled out, and cleaning again changes
\* nothing.
C12_Witness ==
    /\ san_pc = "twice"
    /\ IsCleanPlain(san_text)
    /\ IsDigit(san_text[1])
    /\ san_clean = Str(<< "A", " ", "I", "." >>)
    /\ san_twice = san_clean

=============================================================================
